---- MODULE Spec2Model ----
(***************************************************************************)
(* Gefura (brokerage / Q-measure) centrality: src/gefura.py.               *)
(*                                                                         *)
(* A graph is a record [nodes, adj, directed]: nodes is the sequence in    *)
(* which `for v in G` yields the nodes, adj[v] the sequence in which       *)
(* `for w in G[v]` yields the successors of v.  Scores are exact rationals *)
(* <<numerator, denominator>> in lowest terms (Python computes them in     *)
(* floating point; rounding is not modelled).                              *)
(*                                                                         *)
(* src/brokerage.py, the earlier module for disjoint groups, is modelled   *)
(* next to it: global_brokerage, local_brokerage, external_brokerage.      *)
(***************************************************************************)
EXTENDS Integers, Sequences, FiniteSets, TLC

VARIABLES G, groups, normalized, result

\* cutoff: the max_path_length argument of the calls ({} for None, {L} for L)
\* node: G.node, the attribute dictionary of every node of the caller's graph
VARIABLES cutoff, node

\* a source loop run by workers: the sources not yet processed and the
\* partial score map of every worker
VARIABLES pending, partial

\* a single-source pass run step by step: the source and the locals of the
\* loop it is in
VARIABLE pass

----------------------------------------------------------------------------
(* Bounds of the explored inputs.                                          *)

MaxNodes == 4

MaxDiNodes == 3

MaxGroups == 3

MaxOverlap == 1

MaxArcs == 4

MaxDecoupledOverlap == 2

MaxWorkers == 2

MaxPathLength == 2

----------------------------------------------------------------------------
(* Exact arithmetic on scores.                                             *)

RECURSIVE Gcd(_, _)
Gcd(a, b) == IF b = 0 THEN a ELSE Gcd(b, a % b)

Abs(x) == IF x < 0 THEN -x ELSE x

Rat(n, d) ==
    LET g == Gcd(Abs(n), Abs(d))
        s == IF d < 0 THEN -1 ELSE 1
    IN  <<s * (n \div g), s * (d \div g)>>

Zero == Rat(0, 1)

FromInt(i) == Rat(i, 1)

RAdd(x, y) == Rat(x[1] * y[2] + y[1] * x[2], x[2] * y[2])

RMul(x, y) == Rat(x[1] * y[1], x[2] * y[2])

\* the value of a division that raised ZeroDivisionError
Raised == <<1, 0>>

\* x / y; raises ZeroDivisionError when y is 0
TrueDiv(x, y) == IF y[1] = 0 THEN Raised ELSE Rat(x[1] * y[2], x[2] * y[1])

RLeq(x, y) == x[1] * y[2] <= y[1] * x[2]

RECURSIVE RSum(_, _)
RSum(f, S) ==
    IF S = {} THEN Zero
    ELSE LET x == CHOOSE x \in S : TRUE IN RAdd(f[x], RSum(f, S \ {x}))

Range(s) == {s[k] : k \in DOMAIN s}

----------------------------------------------------------------------------
(* The graph collaborator (networkx Graph / DiGraph).                      *)

\* The graph on nodes 1..n with the arcs E (both arcs of every edge when
\* undirected), adjacency in ascending order.
MkGraph(n, E, directed) ==
    LET nodes == [k \in 1..n |-> k]
    IN  [nodes |-> nodes,
         adj |-> [v \in 1..n |-> SelectSeq(nodes, LAMBDA w : <<v, w>> \in E)],
         directed |-> directed]

NodeSet(g) == Range(g.nodes)

Arcs(g) == {<<v, w>> \in NodeSet(g) \X NodeSet(g) : w \in Range(g.adj[v])}

\* mutant: the graph is not reversed
NotReversed(g) == g

\* G.reverse(copy=False): same nodes, every arc flipped.
Reverse(g) ==
    [nodes |-> g.nodes,
     adj |-> [v \in NodeSet(g) |->
                SelectSeq(g.nodes, LAMBDA u : v \in Range(g.adj[u]))],
     directed |-> g.directed]

----------------------------------------------------------------------------
(* Outcomes of a call: a score map, or the exception it raised.            *)

NotCalled == [kind |-> "none", val |-> <<>>]

Ok(gamma) == [kind |-> "ok", val |-> gamma]

\* ValueError("Nodes in G and nodes in groups should be the same!")
NodeSetError == [kind |-> "NodeSetError", val |-> <<>>]

\* ValueError("Direction should be either 'in', 'out' or 'all'.")
DirectionError == [kind |-> "DirectionError", val |-> <<>>]

ZeroDivisionError == [kind |-> "ZeroDivisionError", val |-> <<>>]

----------------------------------------------------------------------------
(* Group index.                                                            *)

\* node -> set of the (0-based) indices of the groups that contain it
_groups_per_node(grps) ==
    [n \in UNION Range(grps) |->
        {i - 1 : i \in {j \in DOMAIN grps : n \in grps[j]}}]

----------------------------------------------------------------------------
(* Single-source shortest paths (BFS).  A frame is [S, P, sigma, dist, Q]; *)
(* dist is a function on the nodes discovered so far; max_path_length is   *)
(* {} for None and {L} for the limit L.                                    *)

\* for w in G[v]: ... (lines 57-64), from the k-th successor on
RECURSIVE _bfs_for(_, _, _, _, _, _, _)
_bfs_for(st, nbrs, k, v, distv, sigmav, max_path_length) ==
    IF k > Len(nbrs) THEN st
    ELSE
        LET w == nbrs[k]
            st1 == IF w \notin DOMAIN st.dist
                   THEN [st EXCEPT
                           !.dist = @ @@ (w :> distv + 1),
                           !.Q = IF \A L \in max_path_length : distv + 1 <= L
                                 THEN Append(@, w) ELSE @]
                   ELSE st
            st2 == IF st1.dist[w] = distv + 1
                   THEN [st1 EXCEPT !.sigma[w] = @ + sigmav,
                                    !.P[w] = Append(@, v)]
                   ELSE st1
        IN  _bfs_for(st2, nbrs, k + 1, v, distv, sigmav, max_path_length)

\* mutant: Q is used as a stack, v = Q.pop()
_bfs_step_lifo(g, st, max_path_length) ==
    LET v == st.Q[Len(st.Q)]
        st1 == [st EXCEPT !.Q = SubSeq(@, 1, Len(@) - 1), !.S = Append(@, v)]
    IN  _bfs_for(st1, g.adj[v], 1, v, st1.dist[v], st1.sigma[v],
                 max_path_length)

\* one iteration of `while Q` (lines 53-64)
_bfs_step(g, st, max_path_length) ==
    LET v == Head(st.Q)
        st1 == [st EXCEPT !.Q = Tail(@), !.S = Append(@, v)]
    IN  _bfs_for(st1, g.adj[v], 1, v, st1.dist[v], st1.sigma[v],
                 max_path_length)

RECURSIVE _bfs_while(_, _, _)
_bfs_while(g, st, max_path_length) ==
    IF st.Q = <<>> THEN st
    ELSE _bfs_while(g, _bfs_step(g, st, max_path_length), max_path_length)

\* mutant: the source is not counted as a path to itself
_bfs_init_uncounted(g, s) ==
    [S |-> <<>>,
     P |-> [v \in NodeSet(g) |-> <<>>],
     sigma |-> [v \in NodeSet(g) |-> 0],
     dist |-> (s :> 0),
     Q |-> <<s>>]

\* the frame before the loop (lines 43-51)
_bfs_init(g, s) ==
    [S |-> <<>>,
     P |-> [v \in NodeSet(g) |-> <<>>],
     sigma |-> [v \in NodeSet(g) |-> IF v = s THEN 1 ELSE 0],
     dist |-> (s :> 0),
     Q |-> <<s>>]

\* mutant: the maximum path length is not looked at
_single_source_unbounded(g, s, max_path_length) ==
    _bfs_while(g, _bfs_init(g, s), {})

_single_source_shortest_path_basic(g, s, max_path_length) ==
    _bfs_while(g, _bfs_init(g, s), max_path_length)

----------------------------------------------------------------------------
(* Dependency accumulation.                                                *)

\* mutant: the classical betweenness increment, blind to the groups
GroupPairsUniform(s_groups, w_groups) == 1

\* mutant: the increment of a grouping taken to be disjoint
GroupPairsDisjoint(s_groups, w_groups) ==
    IF s_groups # w_groups THEN 1 ELSE 0

\* i = len(s_groups) * len(w_groups) - len(s_groups & w_groups)
GroupPairs(s_groups, w_groups) ==
    Cardinality(s_groups) * Cardinality(w_groups)
        - Cardinality(s_groups \cap w_groups)

\* for v in P[w]: delta[v] += sigma[v] * coeff, from the k-th predecessor on
RECURSIVE _push_delta(_, _, _, _, _)
_push_delta(delta, Pw, k, sigma, coeff) ==
    IF k > Len(Pw) THEN delta
    ELSE LET v == Pw[k]
         IN  _push_delta(
                 [delta EXCEPT ![v] = RAdd(@, RMul(FromInt(sigma[v]), coeff))],
                 Pw, k + 1, sigma, coeff)

\* One pop of the global sweep (lines 124-134).  acc = [gamma, delta, raised];
\* raised records the ZeroDivisionError of line 130.
global_pop(acc, w, s, fr, group_of) ==
    LET i == GroupPairs(group_of[s], group_of[w])
        deltaw == acc.delta[w]
        coeff == TrueDiv(RAdd(FromInt(i), deltaw), FromInt(fr.sigma[w]))
    IN  IF coeff = Raised THEN [acc EXCEPT !.raised = TRUE]
        ELSE
            LET delta1 == _push_delta(acc.delta, fr.P[w], 1, fr.sigma, coeff)
            IN  [gamma |-> IF w # s
                           THEN [acc.gamma EXCEPT ![w] = RAdd(@, deltaw)]
                           ELSE acc.gamma,
                 delta |-> delta1,
                 raised |-> FALSE]

\* mutant: the local total receives delta[w] whatever the groups of s and w
local_pop_ungated(acc, w, s, fr, group_of) ==
    LET popped == global_pop(acc, w, s, fr, group_of)
    IN  IF popped.raised \/ w = s THEN popped
        ELSE [popped EXCEPT !.gamma[w] = RAdd(acc.gamma[w], popped.delta[w])]

\* One pop of the local sweep (lines 165-175).
local_pop(acc, w, s, fr, group_of) ==
    LET i == GroupPairs(group_of[s], group_of[w])
        deltaw == acc.delta[w]
        sigmaw == fr.sigma[w]
        coeff == TrueDiv(RAdd(FromInt(i), deltaw), FromInt(sigmaw))
    IN  IF coeff = Raised THEN [acc EXCEPT !.raised = TRUE]
        ELSE
            LET delta1 == _push_delta(acc.delta, fr.P[w], 1, fr.sigma, coeff)
            IN  [gamma |-> IF w # s /\ i = 0
                           THEN [acc.gamma EXCEPT ![w] = RAdd(@, delta1[w])]
                           ELSE acc.gamma,
                 delta |-> delta1,
                 raised |-> FALSE]

\* mutant: the sweep takes the nodes from the front of S, nearest first
popped_first(fr, k) == fr.S[Len(fr.S) - k + 1]

\* w = S.pop(), with k nodes left on S
popped_node(fr, k) == fr.S[k]

\* while S: w = S.pop() ..., with k nodes left on S
RECURSIVE _sweep(_, _, _, _, _, _)
_sweep(acc, k, s, fr, group_of, local) ==
    IF k = 0 \/ acc.raised THEN acc
    ELSE _sweep(IF local THEN local_pop(acc, popped_node(fr, k), s, fr, group_of)
                ELSE global_pop(acc, popped_node(fr, k), s, fr, group_of),
                k - 1, s, fr, group_of, local)

\* mutant: delta is not built afresh, it starts from the running totals
process_source_carried(g, group_of, tot, s, local, max_path_length) ==
    IF tot.raised THEN tot
    ELSE
        LET fr == _single_source_shortest_path_basic(g, s, max_path_length)
            acc == _sweep([gamma |-> tot.gamma,
                           delta |-> tot.gamma,
                           raised |-> FALSE],
                          Len(fr.S), s, fr, group_of, local)
        IN  [gamma |-> acc.gamma, raised |-> acc.raised]

\* The body of `for s in G` (lines 115-134 / 154-175): the running totals
\* gamma after source s has been processed.
process_source(g, group_of, tot, s, local, max_path_length) ==
    IF tot.raised THEN tot
    ELSE
        LET fr == _single_source_shortest_path_basic(g, s, max_path_length)
            acc == _sweep([gamma |-> tot.gamma,
                           delta |-> [v \in NodeSet(g) |-> Zero],
                           raised |-> FALSE],
                          Len(fr.S), s, fr, group_of, local)
        IN  [gamma |-> acc.gamma, raised |-> acc.raised]

\* for s in G: ..., from the k-th node on
RECURSIVE _sources(_, _, _, _, _, _)
_sources(g, group_of, tot, k, local, max_path_length) ==
    IF k > Len(g.nodes) THEN tot
    ELSE _sources(g, group_of,
                  process_source(g, group_of, tot, g.nodes[k], local,
                                 max_path_length),
                  k + 1, local, max_path_length)

----------------------------------------------------------------------------
(* Rescaling.                                                              *)

\* sum(f[x] for x in S)
RECURSIVE SumOver(_, _)
SumOver(f, S) ==
    IF S = {} THEN 0
    ELSE LET x == CHOOSE x \in S : TRUE IN f[x] + SumOver(f, S \ {x})

\* combinations(groups, 2), as pairs of positions
Combinations2(grps) ==
    {ab \in (DOMAIN grps) \X (DOMAIN grps) : ab[1] < ab[2]}

\* mutant: no factor for the two directions of a pair of groups
base_factor_one(g, norm) == 1

\* base_factor (line 263)
base_factor(g, norm) == IF g.directed /\ ~norm THEN 1 ELSE 2

\* mutant: the factor for disjoint groups, without the shared nodes
global_factor_disjoint(g, grps, norm, s) ==
    IF norm
    THEN SumOver([ab \in Combinations2(grps) |->
                    Cardinality(grps[ab[1]] \ {s}) * Cardinality(grps[ab[2]] \ {s})],
                 Combinations2(grps))
         * base_factor(g, norm)
    ELSE base_factor(g, norm)

\* factor of node s (lines 266-278)
global_factor(g, grps, norm, s) ==
    IF norm
    THEN SumOver([ab \in Combinations2(grps) |->
                    Cardinality(grps[ab[1]] \ {s}) * Cardinality(grps[ab[2]] \ {s})
                    - Cardinality(grps[ab[1]] \cap (grps[ab[2]] \ {s}))],
                 Combinations2(grps))
         * base_factor(g, norm)
    ELSE base_factor(g, norm)

\* mutant: the division without the except clause
DivUncaught(x, factor) == TrueDiv(x, FromInt(factor))

\* try: gamma[s] /= factor; except ZeroDivisionError: gamma[s] = 0
DivOrZero(x, factor) ==
    LET q == TrueDiv(x, FromInt(factor)) IN IF q = Raised THEN Zero ELSE q

\* what a call that computed gamma returns: an uncaught ZeroDivisionError
\* propagates to the caller
Returned(gamma) ==
    IF \E s \in DOMAIN gamma : gamma[s] = Raised THEN ZeroDivisionError
    ELSE Ok(gamma)

rescale_global(gamma, g, grps, norm) ==
    [s \in NodeSet(g) |-> DivOrZero(gamma[s], global_factor(g, grps, norm, s))]

\* next(len(group) for group in groups if s in group)
own_group_size(grps, s) ==
    LET first == CHOOSE i \in DOMAIN grps :
                    /\ s \in grps[i]
                    /\ \A j \in DOMAIN grps : s \in grps[j] => i <= j
    IN  Cardinality(grps[first])

\* mutant: the factor without the number of nodes outside the own group
local_factor_own(g, grps, s) == own_group_size(grps, s) - 1

\* factor of node s (line 297)
local_factor(g, grps, s) ==
    (own_group_size(grps, s) - 1) * (Len(g.nodes) - own_group_size(grps, s))

rescale_local(gamma, g, grps, norm) ==
    IF norm
    THEN [s \in NodeSet(g) |-> DivOrZero(gamma[s], local_factor(g, grps, s))]
    ELSE gamma

----------------------------------------------------------------------------
(* Entry points.                                                           *)

\* mutant: only asks that every graph node is in some group
covers_nodes(group_of, g) == NodeSet(g) \subseteq DOMAIN group_of

\* set(group_of) == set(G) (lines 110, 149)
same_nodes(group_of, g) == DOMAIN group_of = NodeSet(g)

global_gefura(g, grps, norm, max_path_length) ==
    LET group_of == _groups_per_node(grps)
    IN  IF ~same_nodes(group_of, g) THEN NodeSetError
        ELSE
            LET tot == _sources(g, group_of,
                                [gamma |-> [v \in NodeSet(g) |-> Zero],
                                 raised |-> FALSE],
                                1, FALSE, max_path_length)
            IN  IF tot.raised THEN ZeroDivisionError
                ELSE Returned(rescale_global(tot.gamma, g, grps, norm))

_local_gefura(g, grps, norm, max_path_length) ==
    LET group_of == _groups_per_node(grps)
    IN  IF ~same_nodes(group_of, g) THEN NodeSetError
        ELSE
            LET tot == _sources(g, group_of,
                                [gamma |-> [v \in NodeSet(g) |-> Zero],
                                 raised |-> FALSE],
                                1, TRUE, max_path_length)
            IN  IF tot.raised THEN ZeroDivisionError
                ELSE Returned(rescale_local(tot.gamma, g, grps, norm))

\* mutant: the sum is halved whether normalized or not
combine_all_halved(gamma_in, gamma_out, norm) ==
    [k \in DOMAIN gamma_in |->
        TrueDiv(RAdd(gamma_in[k], gamma_out[k]), FromInt(2))]

\* {k: (gamma_in[k] + gamma_out[k]) / norm for k in gamma_in} (lines 248-250)
combine_all(gamma_in, gamma_out, norm) ==
    [k \in DOMAIN gamma_in |->
        TrueDiv(RAdd(gamma_in[k], gamma_out[k]),
                FromInt(IF norm THEN 2 ELSE 1))]

\* mutant: only 'out' takes the shortcut, also on undirected graphs
takes_graph_as_given_out(g, direction) == direction = "out"

\* not G.is_directed() or direction == "out" (line 233)
takes_graph_as_given(g, direction) == ~g.directed \/ direction = "out"

\* mutant: no check of the direction
any_direction(direction) == TRUE

\* direction in ("in", "all") (line 236)
in_or_all(direction) == direction \in {"in", "all"}

local_gefura(g, grps, norm, direction, max_path_length) ==
    IF takes_graph_as_given(g, direction)
    THEN _local_gefura(g, grps, norm, max_path_length)
    ELSE IF ~in_or_all(direction) THEN DirectionError
    ELSE
        LET gamma_in == _local_gefura(Reverse(g), grps, norm, max_path_length)
        IN  IF gamma_in.kind # "ok" \/ direction = "in" THEN gamma_in
            ELSE
                LET gamma_out == _local_gefura(g, grps, norm, max_path_length)
                IN  IF gamma_out.kind # "ok" THEN gamma_out
                    ELSE Returned(combine_all(gamma_in.val, gamma_out.val, norm))

----------------------------------------------------------------------------
(* Overlap decoupling (spec section 4.5): one clone <<n, i>> per node n    *)
(* and group i containing n.                                               *)

Clones(g, grps, n) ==
    SelectSeq([i \in DOMAIN grps |-> <<n, i>>], LAMBDA c : n \in grps[c[2]])

RECURSIVE Concat(_, _)
Concat(ss, k) == IF k > Len(ss) THEN <<>> ELSE ss[k] \o Concat(ss, k + 1)

\* clones of the same node are linked pairwise; every arc (u, v) is
\* replicated between every clone of u and every clone of v
Decouple(g, grps) ==
    LET hnodes == Concat([k \in DOMAIN g.nodes |-> Clones(g, grps, g.nodes[k])], 1)
    IN  [nodes |-> hnodes,
         adj |-> [c \in Range(hnodes) |->
                    SelectSeq(hnodes, LAMBDA d :
                        \/ c[1] = d[1] /\ c[2] # d[2]
                        \/ d[1] \in Range(g.adj[c[1]]))],
         directed |-> g.directed]

\* group i of the decoupled grouping is {<<n, i>> : n in group i}
DecoupledGroups(grps) ==
    [i \in DOMAIN grps |-> {<<n, i>> : n \in grps[i]}]

\* every original node gets the sum of the scores of its clones
Aggregate(g, grps, scores) ==
    [n \in NodeSet(g) |-> RSum(scores, Range(Clones(g, grps, n)))]

\* decouple, run the disjoint-group global algorithm, aggregate
pipeline_global(g, grps, norm) ==
    IF UNION Range(grps) # NodeSet(g) THEN NodeSetError
    ELSE LET h == global_gefura(Decouple(g, grps), DecoupledGroups(grps),
                                norm, {})
         IN  IF h.kind # "ok" THEN h ELSE Ok(Aggregate(g, grps, h.val))

----------------------------------------------------------------------------
(* src/brokerage.py: the measures for disjoint groups.  Its single-source  *)
(* pass is networkx's _single_source_shortest_path_basic(G, s), of which   *)
(* the one of gefura.py is the adaptation; it is modelled by that one with *)
(* no maximum path length.                                                 *)

KeyError == [kind |-> "KeyError", val |-> <<>>]

\* group_of = {n: group for group in groups for n in group}: a node is
\* mapped to the last group that contains it
node_to_group(grps) ==
    [n \in UNION Range(grps) |->
        grps[CHOOSE i \in DOMAIN grps :
                /\ n \in grps[i]
                /\ \A j \in DOMAIN grps : n \in grps[j] => j <= i]]

\* mutant: every two nodes count as being in different groups
different_groups_always(group_of, s, w) == TRUE

\* group_of[s] != group_of[w]
different_groups(group_of, s, w) == group_of[s] # group_of[w]

\* for v in P[w]: delta[v] += sigma[v] / sigma[w] * (i + delta[w]), from the
\* k-th predecessor on; external_brokerage also sets G.node[v]['switch'].
\* acc.raised is FALSE or the exception that ended the call.
RECURSIVE _brokerage_for(_, _, _, _, _, _, _)
_brokerage_for(acc, w, k, fr, group_of, i, external) ==
    IF k > Len(fr.P[w]) THEN acc
    ELSE
        LET v == fr.P[w][k]
            q == TrueDiv(FromInt(fr.sigma[v]), FromInt(fr.sigma[w]))
            acc1 == [acc EXCEPT
                       !.delta[v] =
                           RAdd(@, RMul(q, RAdd(FromInt(i), acc.delta[w])))]
        IN  IF q = Raised THEN [acc EXCEPT !.raised = ZeroDivisionError]
            ELSE IF ~external
            THEN _brokerage_for(acc1, w, k + 1, fr, group_of, i, external)
            ELSE IF v \notin DOMAIN group_of
            THEN [acc1 EXCEPT !.raised = KeyError]
            ELSE _brokerage_for(
                    IF different_groups(group_of, v, w)
                    THEN [acc1 EXCEPT !.node[v] = ("switch" :> TRUE) @@ @]
                    ELSE acc1,
                    w, k + 1, fr, group_of, i, external)

\* for n in G: G.node[n]['switch'] = False (lines 206-207), in
\* external_brokerage only
switches_off(acc, measure) ==
    IF measure = "external"
    THEN [acc EXCEPT !.node = [n \in DOMAIN acc.node |->
                                  ("switch" :> FALSE) @@ acc.node[n]]]
    ELSE acc

\* the if that closes the pop (lines 71-72, 99-100, 216-218)
brokerage_receive(acc, w, s, group_of, measure) ==
    IF /\ acc.raised = FALSE
       /\ w # s
       /\ measure = "local" => ~different_groups(group_of, s, w)
       /\ measure = "external" => /\ different_groups(group_of, s, w)
                                  /\ acc.node[w]["switch"]
    THEN [acc EXCEPT !.gamma[w] = RAdd(@, acc.delta[w])]
    ELSE acc

\* One pop of the sweep of global_brokerage (lines 67-72), _local_brokerage
\* (lines 94-100) or external_brokerage (lines 206-218).
\* acc = [gamma, delta, raised, node].
brokerage_pop(acc, w, s, fr, group_of, measure) ==
    IF {s, w} \subseteq DOMAIN group_of
    THEN brokerage_receive(
             _brokerage_for(switches_off(acc, measure), w, 1, fr, group_of,
                            IF different_groups(group_of, s, w) THEN 1 ELSE 0,
                            measure = "external"),
             w, s, group_of, measure)
    ELSE [switches_off(acc, measure) EXCEPT !.raised = KeyError]

\* while S: w = S.pop() ..., with k nodes left on S
RECURSIVE _brokerage_sweep(_, _, _, _, _, _)
_brokerage_sweep(acc, k, s, fr, group_of, measure) ==
    IF k = 0 \/ acc.raised # FALSE THEN acc
    ELSE _brokerage_sweep(brokerage_pop(acc, fr.S[k], s, fr, group_of, measure),
                          k - 1, s, fr, group_of, measure)

\* the accumulation for source s (lines 59-72, 86-100, 198-218) on the
\* totals tot = [gamma, raised, node]
brokerage_source(g, group_of, tot, s, fr, measure) ==
    _brokerage_sweep([gamma |-> tot.gamma,
                      delta |-> [v \in NodeSet(g) |-> Zero],
                      raised |-> FALSE,
                      node |-> tot.node],
                     Len(fr.S), s, fr, group_of, measure)

\* the totals that the accumulation for a source leaves
brokerage_totals_of(acc) ==
    [gamma |-> acc.gamma, raised |-> acc.raised, node |-> acc.node]

\* for s in G: ..., from the k-th node on
RECURSIVE _brokerage_sources(_, _, _, _, _)
_brokerage_sources(g, group_of, tot, k, measure) ==
    IF k > Len(g.nodes) \/ tot.raised # FALSE THEN tot
    ELSE _brokerage_sources(
             g, group_of,
             brokerage_totals_of(
                 brokerage_source(g, group_of, tot, g.nodes[k],
                     _single_source_shortest_path_basic(g, g.nodes[k], {}),
                     measure)),
             k + 1, measure)

\* the raw totals of a measure and the node attributes it leaves behind
brokerage_totals(g, grps, attrs, measure) ==
    _brokerage_sources(g, node_to_group(grps),
                       [gamma |-> [v \in NodeSet(g) |-> Zero],
                        raised |-> FALSE,
                        node |-> attrs],
                       1, measure)

\* rescale_global of brokerage.py (lines 224-243)
brokerage_rescale_global(B, g, grps, norm) ==
    [s \in NodeSet(g) |->
        DivOrZero(B[s],
            IF norm
            THEN SumOver([ab \in Combinations2(grps) |->
                            Cardinality(grps[ab[1]] \ {s})
                                * Cardinality(grps[ab[2]] \ {s})],
                         Combinations2(grps))
                 * base_factor(g, norm)
            ELSE base_factor(g, norm))]

\* rescale_local of brokerage.py (lines 246-255)
brokerage_rescale_local(B, g, group_of, norm) ==
    IF norm
    THEN [s \in NodeSet(g) |->
            DivOrZero(B[s],
                (Cardinality(group_of[s]) - 1)
                    * (Len(g.nodes) - Cardinality(group_of[s])))]
    ELSE B

\* rescale_external (lines 258-276)
rescale_external(B, g, grps, norm) ==
    [s \in NodeSet(g) |->
        DivOrZero(B[s],
            IF norm
            THEN LET others == {ab \in Combinations2(grps) :
                                    s \notin grps[ab[1]] /\ s \notin grps[ab[2]]}
                 IN  SumOver([ab \in others |->
                                Cardinality(grps[ab[1]]) * Cardinality(grps[ab[2]])],
                             others)
            ELSE base_factor(g, norm))]

\* BG = rescale_global(BG, G, groups, normalized); return BG
global_brokerage_return(tot, g, grps, norm) ==
    IF tot.raised # FALSE THEN tot.raised
    ELSE Returned(brokerage_rescale_global(tot.gamma, g, grps, norm))

global_brokerage(g, grps, norm) ==
    global_brokerage_return(
        brokerage_totals(g, grps, [n \in NodeSet(g) |-> <<>>], "global"),
        g, grps, norm)

\* BL = rescale_local(BL, G, group_of, normalized); return BL
local_brokerage_return(tot, g, grps, norm) ==
    IF tot.raised # FALSE THEN tot.raised
    ELSE Returned(brokerage_rescale_local(tot.gamma, g, node_to_group(grps),
                                          norm))

_local_brokerage(g, grps, norm) ==
    local_brokerage_return(
        brokerage_totals(g, grps, [n \in NodeSet(g) |-> <<>>], "local"),
        g, grps, norm)

\* lines 152-158: BL_in for 'in', the combination with BL_out for 'all'
brokerage_in_or_all(BL_in, BL_out, norm, direction) ==
    IF BL_in.kind # "ok" \/ direction = "in" THEN BL_in
    ELSE IF BL_out.kind # "ok" THEN BL_out
    ELSE Returned(combine_all(BL_in.val, BL_out.val, norm))

\* lines 144-158; H = G.reverse() is a new graph
local_brokerage(g, grps, norm, direction) ==
    IF takes_graph_as_given(g, direction) THEN _local_brokerage(g, grps, norm)
    ELSE IF ~in_or_all(direction) THEN DirectionError
    ELSE brokerage_in_or_all(_local_brokerage(Reverse(g), grps, norm),
                             _local_brokerage(g, grps, norm),
                             norm, direction)

\* BE = rescale_external(BE, G, groups, normalized); return BE
external_brokerage_return(tot, g, grps, norm) ==
    [outcome |-> IF tot.raised # FALSE THEN tot.raised
                 ELSE Returned(rescale_external(tot.gamma, g, grps, norm)),
     node |-> tot.node]

\* external_brokerage (lines 193-221): what it returns or raises, and the
\* node attributes of G it leaves behind.  The print of line 217 writes to
\* the standard output and is not modelled.
external_brokerage(g, grps, attrs, norm) ==
    external_brokerage_return(brokerage_totals(g, grps, attrs, "external"),
                              g, grps, norm)

----------------------------------------------------------------------------
(* The inputs a session is run on.                                         *)

Sym(E) == E \cup {<<e[2], e[1]>> : e \in E}

UndirectedGraphs(n) ==
    {MkGraph(n, Sym(E), FALSE) :
        E \in SUBSET {e \in (1..n) \X (1..n) : e[1] < e[2]}}

DirectedGraphs(n) ==
    {MkGraph(n, E, TRUE) :
        E \in SUBSET {e \in (1..n) \X (1..n) : e[1] # e[2]}}

\* sum of the group sizes minus the size of their union
Overlap(grps) ==
    SumOver([i \in DOMAIN grps |-> Cardinality(grps[i])], DOMAIN grps)
        - Cardinality(UNION Range(grps))

\* groupings of at most MaxGroups distinct non-empty groups of nodes of U,
\* with at most overlap memberships beyond the first of each node
GroupingsUpTo(U, overlap) ==
    {grps \in UNION {[1..k -> (SUBSET U) \ {{}}] : k \in 0..MaxGroups} :
        /\ Overlap(grps) <= overlap
        /\ \A i, j \in DOMAIN grps : i # j => grps[i] # grps[j]}

Groupings(U) == GroupingsUpTo(U, MaxOverlap)

Covers(g, grps) == UNION Range(grps) = NodeSet(g)

Disjoint(grps) == Overlap(grps) = 0

----------------------------------------------------------------------------
(* A session: a client calls the entry points named by script, in that     *)
(* order, on the same graph and grouping; result keeps what each call      *)
(* returned or raised.  "foobar" stands for any direction that is not one  *)
(* of 'in', 'out', 'all'.                                                  *)

VARIABLE script

vars == <<G, groups, normalized, script, result, cutoff, node,
          pending, partial, pass>>

\* no source loop and no single-source pass is run step by step
Idle == <<>>

stepwise == <<pending, partial, pass>>

Directions == {"out", "in", "all", "foobar"}

\* the key under which local_brokerage called with direction is kept
BrokerageKey(direction) == "local_brokerage_" \o direction

BrokerageCalls ==
    {"global_brokerage", "external_brokerage"}
        \cup {BrokerageKey(direction) : direction \in Directions}

Calls == {"global", "pipeline"} \cup Directions \cup BrokerageCalls

ScoreCalls == <<"global", "out", "in", "all", "foobar">>

OverlapCalls == <<"global", "pipeline">>

BothModules ==
    <<"global", "out", "in", "all",
      "global_brokerage", BrokerageKey("out"), BrokerageKey("in"),
      BrokerageKey("all"), "external_brokerage">>

\* the call the client makes next
Due(key) ==
    \E k \in DOMAIN script :
        /\ script[k] = key
        /\ result[key] = NotCalled
        /\ \A j \in 1..(k - 1) : result[script[j]] # NotCalled

InitSession(calls) ==
    /\ script = calls
    /\ result = [key \in Calls |-> NotCalled]
    /\ cutoff = {}
    /\ node = [n \in NodeSet(G) |-> <<>>]
    /\ pending = Idle /\ partial = Idle /\ pass = Idle

\* undirected graphs of up to MaxNodes nodes and directed graphs of up to
\* MaxDiNodes nodes, with every grouping that covers the nodes
Init ==
    /\ \E n \in 0..MaxNodes :
          /\ G \in UndirectedGraphs(n)
                    \cup (IF n <= MaxDiNodes THEN DirectedGraphs(n) ELSE {})
          /\ groups \in {grps \in Groupings(1..n) : Covers(G, grps)}
    /\ normalized \in BOOLEAN
    /\ InitSession(ScoreCalls)

CallGlobal ==
    /\ Due("global")
    /\ result' = [result EXCEPT
                    !["global"] =
                        global_gefura(G, groups, normalized, cutoff)]
    /\ UNCHANGED <<G, groups, normalized, script, cutoff, node>>
    /\ UNCHANGED stepwise

CallLocal(direction) ==
    /\ Due(direction)
    /\ result' = [result EXCEPT
                    ![direction] =
                        local_gefura(G, groups, normalized, direction, cutoff)]
    /\ UNCHANGED <<G, groups, normalized, script, cutoff, node>>
    /\ UNCHANGED stepwise

CallPipeline ==
    /\ Due("pipeline")
    /\ result' = [result EXCEPT
                    !["pipeline"] = pipeline_global(G, groups, normalized)]
    /\ UNCHANGED <<G, groups, normalized, script, cutoff, node>>
    /\ UNCHANGED stepwise

Next ==
    \/ CallGlobal
    \/ \E direction \in Directions : CallLocal(direction)

Spec == Init /\ [][Next]_vars

\* graphs of up to MaxDiNodes nodes with every grouping of nodes among
\* 1..MaxDiNodes, covering the graph's nodes or not
InitAny ==
    /\ \E n \in 0..MaxDiNodes :
          G \in UndirectedGraphs(n) \cup DirectedGraphs(n)
    /\ groups \in Groupings(1..MaxDiNodes)
    /\ normalized \in BOOLEAN
    /\ InitSession(ScoreCalls)

SpecAny == InitAny /\ [][Next]_vars

\* directed graphs of up to MaxNodes nodes and MaxArcs arcs with every
\* disjoint grouping that covers the nodes, scores not normalized
InitDirected ==
    /\ \E n \in 0..MaxNodes :
          /\ G \in {g \in DirectedGraphs(n) : Cardinality(Arcs(g)) <= MaxArcs}
          /\ groups \in {grps \in GroupingsUpTo(1..n, 0) : Covers(G, grps)}
    /\ normalized = FALSE
    /\ InitSession(ScoreCalls)

SpecDirected == InitDirected /\ [][Next]_vars

\* graphs with every overlapping grouping that covers the nodes, scores not
\* normalized; the client compares global_gefura with the pipeline
InitOverlap ==
    /\ \E n \in 0..MaxNodes :
          /\ G \in UndirectedGraphs(n)
                    \cup (IF n <= MaxDiNodes THEN DirectedGraphs(n) ELSE {})
          /\ groups \in {grps \in GroupingsUpTo(1..n, MaxDecoupledOverlap) :
                            Covers(G, grps) /\ ~Disjoint(grps)}
    /\ normalized = FALSE
    /\ InitSession(OverlapCalls)

NextOverlap ==
    \/ CallGlobal
    \/ CallPipeline

SpecOverlap == InitOverlap /\ [][NextOverlap]_vars

----------------------------------------------------------------------------
(* A session that calls the entry points of both modules.                  *)

CallGlobalBrokerage ==
    /\ Due("global_brokerage")
    /\ result' = [result EXCEPT
                    !["global_brokerage"] =
                        global_brokerage(G, groups, normalized)]
    /\ UNCHANGED <<G, groups, normalized, script, cutoff, node>>
    /\ UNCHANGED stepwise

CallLocalBrokerage(direction) ==
    /\ Due(BrokerageKey(direction))
    /\ result' = [result EXCEPT
                    ![BrokerageKey(direction)] =
                        local_brokerage(G, groups, normalized, direction)]
    /\ UNCHANGED <<G, groups, normalized, script, cutoff, node>>
    /\ UNCHANGED stepwise

\* external_brokerage writes G.node[n]['switch'] of the graph it is given
CallExternalBrokerage ==
    /\ Due("external_brokerage")
    /\ LET r == external_brokerage(G, groups, node, normalized)
       IN  /\ result' = [result EXCEPT !["external_brokerage"] = r.outcome]
           /\ node' = r.node
    /\ UNCHANGED <<G, groups, normalized, script, cutoff>>
    /\ UNCHANGED stepwise

\* undirected graphs of up to MaxNodes nodes and directed graphs of up to
\* MaxDiNodes nodes, with every disjoint grouping that covers the nodes
InitBrokerage ==
    /\ \E n \in 0..MaxNodes :
          /\ G \in UndirectedGraphs(n)
                    \cup (IF n <= MaxDiNodes THEN DirectedGraphs(n) ELSE {})
          /\ groups \in {grps \in GroupingsUpTo(1..n, 0) : Covers(G, grps)}
    /\ normalized \in BOOLEAN
    /\ InitSession(BothModules)

NextBrokerage ==
    \/ CallGlobal
    \/ \E direction \in Directions : CallLocal(direction)
    \/ CallGlobalBrokerage
    \/ \E direction \in Directions : CallLocalBrokerage(direction)
    \/ CallExternalBrokerage

SpecBrokerage == InitBrokerage /\ [][NextBrokerage]_vars

----------------------------------------------------------------------------
(* A session with a maximum path length.                                   *)

PathLimits == {{}} \cup {{L} : L \in 0..MaxPathLength}

BoundedCalls == <<"global", "out">>

\* undirected graphs of up to MaxNodes nodes and directed graphs of up to
\* MaxDiNodes nodes, with every disjoint grouping that covers the nodes and
\* every maximum path length up to MaxPathLength, scores not normalized
InitBounded ==
    /\ \E n \in 0..MaxNodes :
          /\ G \in UndirectedGraphs(n)
                    \cup (IF n <= MaxDiNodes THEN DirectedGraphs(n) ELSE {})
          /\ groups \in {grps \in GroupingsUpTo(1..n, 0) : Covers(G, grps)}
    /\ normalized = FALSE
    /\ script = BoundedCalls
    /\ result = [key \in Calls |-> NotCalled]
    /\ cutoff \in PathLimits
    /\ node = [n \in NodeSet(G) |-> <<>>]
    /\ pending = Idle /\ partial = Idle /\ pass = Idle

SpecBounded == InitBounded /\ [][Next]_vars

----------------------------------------------------------------------------
(* The source loop of global_gefura (script = <<"global">>) or of          *)
(* _local_gefura (script = <<"out">>) run by workers: a worker takes any   *)
(* source that is still pending and runs the body of the loop on it with   *)
(* its own partial score map; when no source is left the partial maps are  *)
(* summed and rescaled.                                                    *)

Workers == 1..MaxWorkers

ZeroMap(g) == [v \in NodeSet(g) |-> Zero]

\* a worker's partial score map, with the sources it has processed
NoWork(g) == [gamma |-> ZeroMap(g), raised |-> FALSE, sources |-> <<>>]

IsLocal(key) == key # "global"

\* the body of `for s in G` for source s, on the partial map of worker
Work(worker, s) ==
    /\ s \in pending
    /\ LET mine == partial[worker]
           tot == process_source(G, _groups_per_node(groups),
                                 [gamma |-> mine.gamma, raised |-> mine.raised],
                                 s, IsLocal(script[1]), cutoff)
       IN  partial' = [partial EXCEPT
                         ![worker] = [gamma |-> tot.gamma,
                                      raised |-> tot.raised,
                                      sources |-> Append(mine.sources, s)]]
    /\ pending' = pending \ {s}
    /\ UNCHANGED <<G, groups, normalized, script, result, cutoff, node, pass>>

\* the sum of the partial maps of the workers 1..k
RECURSIVE SumPartials(_, _, _)
SumPartials(g, parts, k) ==
    IF k = 0 THEN ZeroMap(g)
    ELSE LET rest == SumPartials(g, parts, k - 1)
         IN  [v \in NodeSet(g) |-> RAdd(rest[v], parts[k].gamma[v])]

\* the return statement of the call (lines 136, 177) on the summed maps
Merge ==
    /\ pending = {}
    /\ Due(script[1])
    /\ LET gamma == SumPartials(G, partial, MaxWorkers)
       IN  result' = [result EXCEPT
                        ![script[1]] =
                            IF \E worker \in Workers : partial[worker].raised
                            THEN ZeroDivisionError
                            ELSE IF IsLocal(script[1])
                            THEN Returned(rescale_local(gamma, G, groups, normalized))
                            ELSE Returned(rescale_global(gamma, G, groups, normalized))]
    /\ UNCHANGED <<G, groups, normalized, script, cutoff, node>>
    /\ UNCHANGED stepwise

\* graphs of up to MaxDiNodes nodes with every disjoint grouping that covers
\* the nodes, scores not normalized; all sources pending, every worker with
\* an empty partial map
InitSources ==
    /\ \E n \in 0..MaxDiNodes :
          /\ G \in UndirectedGraphs(n) \cup DirectedGraphs(n)
          /\ groups \in {grps \in GroupingsUpTo(1..n, 0) : Covers(G, grps)}
    /\ normalized = FALSE
    /\ script \in {<<"global">>, <<"out">>}
    /\ result = [key \in Calls |-> NotCalled]
    /\ cutoff = {}
    /\ node = [n \in NodeSet(G) |-> <<>>]
    /\ pending = NodeSet(G)
    /\ partial = [worker \in Workers |-> NoWork(G)]
    /\ pass = Idle

NextSources ==
    \/ \E worker \in Workers : \E s \in NodeSet(G) : Work(worker, s)
    \/ Merge

SpecSources == InitSources /\ [][NextSources]_vars

----------------------------------------------------------------------------
(* _single_source_shortest_path_basic(G, s, max_path_length) run one       *)
(* iteration of `while Q` at a time: pass = [s, fr], fr the frame.         *)

BfsStep ==
    /\ pass.fr.Q # <<>>
    /\ pass' = [pass EXCEPT !.fr = _bfs_step(G, @, cutoff)]
    /\ UNCHANGED <<G, groups, normalized, script, result, cutoff, node,
                   pending, partial>>

\* undirected graphs of up to MaxNodes nodes and directed graphs of up to
\* MaxNodes nodes and MaxArcs arcs, every source and every maximum path
\* length; the pass does not look at the groups
InitBfs ==
    /\ \E n \in 1..MaxNodes :
          G \in UndirectedGraphs(n)
                    \cup {g \in DirectedGraphs(n) : Cardinality(Arcs(g)) <= MaxArcs}
    /\ groups = <<NodeSet(G)>>
    /\ normalized = FALSE
    /\ script = <<>>
    /\ result = [key \in Calls |-> NotCalled]
    /\ cutoff \in PathLimits
    /\ node = [n \in NodeSet(G) |-> <<>>]
    /\ pending = Idle /\ partial = Idle
    /\ \E s \in NodeSet(G) : pass = [s |-> s, fr |-> _bfs_init(G, s)]

NextBfs == BfsStep

SpecBfs == InitBfs /\ [][NextBfs]_vars

\* the loop is run by one thread that does nothing else: it takes its next
\* iteration as long as there is one
SpecBfsFair == SpecBfs /\ WF_vars(NextBfs)

----------------------------------------------------------------------------
(* The accumulation for one source s run one pop of `while S` at a time,   *)
(* in global_gefura (local = FALSE) or in _local_gefura (local = TRUE),    *)
(* on a score map that starts empty:                                       *)
(* pass = [s, fr, local, k, gamma, delta, raised, i, read] with k the      *)
(* number of nodes left on S, and, for every node popped so far, i the     *)
(* increment computed at its pop and read the delta[w] read at its pop.    *)

Pop ==
    /\ pass.k > 0 /\ ~pass.raised
    /\ LET w == popped_node(pass.fr, pass.k)
           group_of == _groups_per_node(groups)
           acc == [gamma |-> pass.gamma, delta |-> pass.delta,
                   raised |-> pass.raised]
           acc1 == IF pass.local
                   THEN local_pop(acc, w, pass.s, pass.fr, group_of)
                   ELSE global_pop(acc, w, pass.s, pass.fr, group_of)
       IN  pass' = [pass EXCEPT
                      !.k = @ - 1,
                      !.gamma = acc1.gamma,
                      !.delta = acc1.delta,
                      !.raised = acc1.raised,
                      !.i = @ @@ (w :> GroupPairs(group_of[pass.s], group_of[w])),
                      !.read = @ @@ (w :> acc.delta[w])]
    /\ UNCHANGED <<G, groups, normalized, script, result, cutoff, node,
                   pending, partial>>

\* the state of the accumulation for source s before the first pop
StartSweep(g, s, local, max_path_length) ==
    LET fr == _single_source_shortest_path_basic(g, s, max_path_length)
    IN  [s |-> s, fr |-> fr, local |-> local, k |-> Len(fr.S),
         gamma |-> ZeroMap(g), delta |-> ZeroMap(g), raised |-> FALSE,
         i |-> <<>>, read |-> <<>>]

\* undirected graphs of MaxNodes nodes with every disjoint grouping that
\* covers the nodes, and graphs of up to MaxDiNodes nodes with every
\* grouping, of overlap up to MaxDecoupledOverlap, that covers the nodes;
\* every source and maximum path length, the global and the local
\* accumulation
InitSweep ==
    /\ \E n \in 1..MaxNodes :
          /\ G \in UndirectedGraphs(n)
                    \cup (IF n <= MaxDiNodes THEN DirectedGraphs(n) ELSE {})
          /\ groups \in {grps \in GroupingsUpTo(1..n,
                                    IF n <= MaxDiNodes THEN MaxDecoupledOverlap
                                    ELSE 0) :
                            Covers(G, grps)}
    /\ normalized = FALSE
    /\ script = <<>>
    /\ result = [key \in Calls |-> NotCalled]
    /\ cutoff \in PathLimits
    /\ node = [n \in NodeSet(G) |-> <<>>]
    /\ pending = Idle /\ partial = Idle
    /\ \E s \in NodeSet(G) : \E local \in BOOLEAN :
          pass = StartSweep(G, s, local, cutoff)

NextSweep == Pop

SpecSweep == InitSweep /\ [][NextSweep]_vars

----------------------------------------------------------------------------
(* Shortest paths by enumeration, for stating what the scores mean.        *)

\* the simple paths of g with k nodes
RECURSIVE SimplePathsOfLen(_, _)
SimplePathsOfLen(g, k) ==
    IF k = 1 THEN {<<v>> : v \in NodeSet(g)}
    ELSE UNION {{Append(p, w) : w \in Range(g.adj[p[Len(p)]]) \ Range(p)} :
                    p \in SimplePathsOfLen(g, k - 1)}

SimplePaths(g) == UNION {SimplePathsOfLen(g, k) : k \in 1..Len(g.nodes)}

\* the shortest paths from s to t among paths
ShortestPaths(paths, s, t) ==
    LET st == {p \in paths : p[1] = s /\ p[Len(p)] = t}
    IN  {p \in st : \A q \in st : Len(p) <= Len(q)}

\* the fraction of the shortest s-t paths that pass through w; 0 when
\* there is no s-t path
PathFraction(paths, s, t, w) ==
    LET sp == ShortestPaths(paths, s, t)
    IN  IF sp = {} THEN Zero
        ELSE Rat(Cardinality({p \in sp : w \in Range(p)}), Cardinality(sp))

SameGroup(grps, s, t) == \E i \in DOMAIN grps : s \in grps[i] /\ t \in grps[i]

\* sum of PathFraction over the ordered pairs <<s, t>> of pairs
FractionSum(paths, pairs, w) ==
    RSum([st \in pairs |-> PathFraction(paths, st[1], st[2], w)], pairs)

\* the unordered pairs {s, t} (as s < t) in different groups, w excluded
CrossPairs(g, grps, w) ==
    {st \in NodeSet(g) \X NodeSet(g) :
        /\ st[1] < st[2]
        /\ st[1] # w /\ st[2] # w
        /\ ~SameGroup(grps, st[1], st[2])}

----------------------------------------------------------------------------
(* C1: on an undirected graph with a disjoint grouping covering its nodes, *)
(* unnormalized global_gefura gives every node w its cross-group           *)
(* betweenness: the sum over unordered pairs {s,t} of nodes in different   *)
(* groups, s # w # t, of the fraction of shortest s-t paths through w.     *)
C1_GlobalIsCrossGroupBetweenness ==
    (/\ ~G.directed
     /\ Disjoint(groups)
     /\ ~normalized
     /\ result["global"] # NotCalled)
    => /\ result["global"].kind = "ok"
       /\ LET paths == SimplePaths(G)
          IN  \A w \in NodeSet(G) :
                result["global"].val[w]
                    = FractionSum(paths, CrossPairs(G, groups, w), w)

\* a node that carries half of the shortest paths of some pair, 3 groups
C1_Witness ==
    /\ ~G.directed
    /\ Disjoint(groups)
    /\ ~normalized
    /\ Len(groups) = 3
    /\ result["global"].kind = "ok"
    /\ \E w \in NodeSet(G) : result["global"].val[w] = Rat(1, 2)

----------------------------------------------------------------------------
(* Score ranges.                                                           *)

ScoreKeys == {"global", "out", "in", "all"}

InUnitInterval(x) == RLeq(Zero, x) /\ RLeq(x, FromInt(1))

AllInUnitInterval(key) ==
    result[key].kind = "ok"
        => \A w \in DOMAIN result[key].val : InUnitInterval(result[key].val[w])

(* C2 as claimed: with normalized=True every score of global_gefura and of *)
(* local_gefura (directions 'in', 'out', 'all') lies in [0,1], for every   *)
(* graph and every grouping, disjoint or overlapping, covering the nodes.  *)
C2_Original ==
    normalized => \A key \in ScoreKeys : AllInUnitInterval(key)

(* C2 as amended: with normalized=True every score of global_gefura lies   *)
(* in [0,1] for every graph and every covering grouping, disjoint or       *)
(* overlapping; every score of local_gefura (each direction) lies in [0,1] *)
(* for every graph and every disjoint covering grouping.                   *)
C2_NormalizedScoresInUnitInterval ==
    normalized =>
        /\ AllInUnitInterval("global")
        /\ Disjoint(groups) =>
                \A key \in {"out", "in", "all"} : AllInUnitInterval(key)

\* overlapping groups and a node with the global score 1, all calls made
C2_Witness ==
    /\ normalized
    /\ ~Disjoint(groups)
    /\ \A key \in ScoreKeys : result[key].kind = "ok"
    /\ \E w \in NodeSet(G) : result["global"].val[w] = FromInt(1)

----------------------------------------------------------------------------
(* C3: global_gefura and local_gefura (directions 'in', 'out', 'all') fail *)
(* with the node-set error exactly when the union of the groups differs    *)
(* from the graph's node set.                                              *)
C3_NodeSetErrorIffNotCovering ==
    \A key \in ScoreKeys :
        result[key] # NotCalled =>
            /\ ~Covers(G, groups) => result[key] = NodeSetError
            /\ Covers(G, groups) => result[key].kind = "ok"

\* every graph node is in a group, one group member is no graph node, and
\* all four calls have failed
C3_Witness ==
    /\ G.directed
    /\ NodeSet(G) # {}
    /\ NodeSet(G) \subseteq UNION Range(groups)
    /\ UNION Range(groups) # NodeSet(G)
    /\ \A key \in ScoreKeys : result[key] = NodeSetError

----------------------------------------------------------------------------
(* C4 as claimed: local_gefura called with a direction that is not one of  *)
(* 'in', 'out', 'all' fails with the direction error, for every graph and  *)
(* grouping.                                                               *)
C4_Original ==
    result["foobar"] # NotCalled => result["foobar"] = DirectionError

(* C4 as amended: on a directed graph, local_gefura called with a          *)
(* direction that is not one of 'in', 'out', 'all' fails with the          *)
(* direction error, for every grouping (covering the nodes or not); on an  *)
(* undirected graph the direction is not looked at: the call does what the *)
(* call with direction 'out' does.                                         *)
C4_DirectionErrorWhenDirected ==
    result["foobar"] # NotCalled =>
        IF G.directed THEN result["foobar"] = DirectionError
        ELSE result["foobar"] = result["out"]

\* a directed graph whose grouping does not cover it: the direction error,
\* not the node-set error
C4_Witness ==
    /\ G.directed
    /\ ~Covers(G, groups)
    /\ result["out"] = NodeSetError
    /\ result["foobar"] = DirectionError

----------------------------------------------------------------------------
(* C5: for every graph and covering grouping no call fails with a division *)
(* by zero; the returned map has an entry for every node, and a node whose *)
(* normalization divisor is 0 has score 0.                                 *)
C5_NoZeroDivision ==
    \A key \in ScoreKeys :
        result[key] # NotCalled =>
            /\ result[key].kind = "ok"
            /\ DOMAIN result[key].val = NodeSet(G)
            /\ normalized =>
                \A w \in NodeSet(G) :
                    (IF key = "global"
                     THEN global_factor(G, groups, normalized, w) = 0
                     ELSE local_factor(G, groups, w) = 0)
                        => result[key].val[w] = Zero

\* a singleton group beside a group that holds every node, on a graph where
\* the unnormalized local score of a node of the large group is not 0
C5_Witness ==
    /\ normalized
    /\ Len(G.nodes) >= 3
    /\ \E i, j \in DOMAIN groups :
          /\ Cardinality(groups[i]) = 1
          /\ groups[j] = NodeSet(G)
    /\ \E w \in NodeSet(G) :
          /\ local_factor(G, groups, w) = 0
          /\ _local_gefura(G, groups, FALSE, {}).val[w] # Zero
    /\ \A key \in ScoreKeys : result[key].kind = "ok"

----------------------------------------------------------------------------
(* C6: on a directed graph with a covering grouping, local_gefura with     *)
(* direction 'all' is, node by node, the 'in' score plus the 'out' score,  *)
(* divided by 2 when normalized and by 1 when not.                         *)
C6_AllIsInPlusOut ==
    (G.directed /\ result["all"] # NotCalled) =>
        /\ result["out"].kind = "ok"
        /\ result["in"].kind = "ok"
        /\ result["all"].kind = "ok"
        /\ \A k \in NodeSet(G) :
              RMul(FromInt(IF normalized THEN 2 ELSE 1), result["all"].val[k])
                = RAdd(result["in"].val[k], result["out"].val[k])

\* normalized, a node whose 'in' and 'out' scores differ, 'all' not 0
C6_Witness ==
    /\ G.directed
    /\ normalized
    /\ result["all"].kind = "ok"
    /\ \E k \in NodeSet(G) :
          /\ result["in"].val[k] # result["out"].val[k]
          /\ result["all"].val[k] # Zero

----------------------------------------------------------------------------
(* C7: on an undirected graph with a covering grouping local_gefura        *)
(* returns the same score map for the directions 'out', 'in' and 'all'.    *)
C7_DirectionIgnoredWhenUndirected ==
    ~G.directed =>
        /\ result["in"] # NotCalled => result["in"] = result["out"]
        /\ result["all"] # NotCalled => result["all"] = result["out"]

\* all three directions called, unnormalized, some local score not 0
C7_Witness ==
    /\ ~G.directed
    /\ ~normalized
    /\ result["all"].kind = "ok"
    /\ result["in"].kind = "ok"
    /\ \E w \in NodeSet(G) : result["out"].val[w] # Zero

----------------------------------------------------------------------------
(* C8: on a directed graph with a disjoint grouping, unnormalized          *)
(* local_gefura with direction 'out' gives node w the sum, over s # w in   *)
(* w's group and t # w in another group, of the fraction of shortest s->t  *)
(* paths through w; direction 'in' gives the same sum over the shortest    *)
(* paths t->s, which is the 'out' sum on the reversed graph.               *)

\* the pairs <<s, t>>: s in w's group, t in another group, w excluded
OwnToOther(g, grps, w) ==
    {st \in NodeSet(g) \X NodeSet(g) :
        /\ st[1] # w /\ st[2] # w
        /\ SameGroup(grps, st[1], w)
        /\ ~SameGroup(grps, st[2], w)}

Flip(pairs) == {<<st[2], st[1]>> : st \in pairs}

C8_LocalOutAndIn ==
    (G.directed /\ Disjoint(groups) /\ ~normalized) =>
        LET paths == SimplePaths(G)
            rpaths == SimplePaths(Reverse(G))
        IN  /\ result["out"] # NotCalled =>
                /\ result["out"].kind = "ok"
                /\ \A w \in NodeSet(G) :
                      result["out"].val[w]
                        = FractionSum(paths, OwnToOther(G, groups, w), w)
            /\ result["in"] # NotCalled =>
                /\ result["in"].kind = "ok"
                /\ \A w \in NodeSet(G) :
                      /\ result["in"].val[w]
                           = FractionSum(paths, Flip(OwnToOther(G, groups, w)), w)
                      /\ result["in"].val[w]
                           = FractionSum(rpaths, OwnToOther(G, groups, w), w)

\* a node that carries half of the shortest paths out of its group and
\* none into it
C8_Witness ==
    /\ G.directed
    /\ Disjoint(groups)
    /\ ~normalized
    /\ result["in"].kind = "ok"
    /\ \E w \in NodeSet(G) :
          /\ result["out"].val[w] = Rat(1, 2)
          /\ result["in"].val[w] = Zero

----------------------------------------------------------------------------
(* C9 as claimed: for a graph whose groups overlap, global_gefura equals   *)
(* the pipeline: decouple, run the disjoint-group global algorithm on the  *)
(* decoupled graph, give each node the sum of the scores of its clones.    *)
C9_Original ==
    (~Disjoint(groups) /\ result["pipeline"] # NotCalled)
        => result["pipeline"] = result["global"]

\* no two nodes are joined by more than one shortest path
UniqueShortestPaths(g) ==
    LET paths == SimplePaths(g)
    IN  \A s, t \in NodeSet(g) : Cardinality(ShortestPaths(paths, s, t)) <= 1

(* C9 as amended: for a graph whose groups overlap and in which no two     *)
(* nodes are joined by more than one shortest path, global_gefura with     *)
(* normalized=False equals the pipeline.                                   *)
C9_PipelineWhenPathsUnique ==
    (/\ ~Disjoint(groups)
     /\ ~normalized
     /\ result["pipeline"] # NotCalled
     /\ UniqueShortestPaths(G))
        => /\ result["global"].kind = "ok"
           /\ result["pipeline"] = result["global"]

\* a path counted for several pairs of groups: a score of 3
C9_Witness ==
    /\ ~Disjoint(groups)
    /\ ~normalized
    /\ UniqueShortestPaths(G)
    /\ result["pipeline"].kind = "ok"
    /\ \E w \in NodeSet(G) : result["pipeline"].val[w] = FromInt(3)

----------------------------------------------------------------------------
(* The 3-node path with the overlapping groups [{1,2},{2,3}].              *)

ForwardPath3 == MkGraph(3, {<<1, 2>>, <<2, 3>>}, TRUE)

UndirectedPath3 == MkGraph(3, Sym({<<1, 2>>, <<2, 3>>}), FALSE)

OverlapScenario(g) ==
    /\ G = g
    /\ groups = <<{1, 2}, {2, 3}>>
    /\ normalized
    /\ result["global"] # NotCalled

(* C10 as claimed: on the directed path with only the arcs 1->2 and 2->3   *)
(* and the groups [{1,2},{2,3}], normalized global_gefura returns          *)
(* {1: 0, 2: 1, 3: 0}.                                                     *)
C10_Original ==
    OverlapScenario(ForwardPath3) =>
        result["global"] = Ok(<<Zero, FromInt(1), Zero>>)

(* C10 as amended: on the undirected path 1-2-3 with the groups            *)
(* [{1,2},{2,3}], normalized global_gefura returns {1: 0, 2: 1, 3: 0}; on  *)
(* the directed path with only the arcs 1->2 and 2->3 it returns           *)
(* {1: 0, 2: 1/2, 3: 0}.                                                   *)
C10_OverlapSimple ==
    /\ OverlapScenario(UndirectedPath3) =>
            result["global"] = Ok(<<Zero, FromInt(1), Zero>>)
    /\ OverlapScenario(ForwardPath3) =>
            result["global"] = Ok(<<Zero, Rat(1, 2), Zero>>)

C10_Witness ==
    /\ OverlapScenario(UndirectedPath3)
    /\ result["global"].kind = "ok"
    /\ result["global"].val[2] = FromInt(1)

----------------------------------------------------------------------------
(* C11: on an undirected graph partitioned into exactly two disjoint       *)
(* groups, local_gefura (whatever the direction) returns what              *)
(* global_gefura returns, and local_brokerage returns what                 *)
(* global_brokerage returns, with normalized=False and with                *)
(* normalized=True.                                                        *)
C11_LocalIsGlobalForTwoGroups ==
    (~G.directed /\ Len(groups) = 2 /\ Disjoint(groups)) =>
        \A direction \in {"out", "in", "all"} :
            /\ (result["global"] # NotCalled /\ result[direction] # NotCalled)
                  => result[direction] = result["global"]
            /\ (/\ result["global_brokerage"] # NotCalled
                /\ result[BrokerageKey(direction)] # NotCalled)
                  => result[BrokerageKey(direction)] = result["global_brokerage"]

\* two groups, both modules called, some node with a score that is neither
\* 0 nor a whole number
C11_Witness ==
    /\ ~G.directed /\ Len(groups) = 2 /\ Disjoint(groups)
    /\ result["global"].kind = "ok"
    /\ result["out"] = result["global"]
    /\ result["global_brokerage"].kind = "ok"
    /\ result[BrokerageKey("all")] = result["global_brokerage"]
    /\ \E n \in NodeSet(G) :
          /\ result["global"].val[n][2] # 1
          /\ result["global_brokerage"].val[n][2] # 1

----------------------------------------------------------------------------
(* C12 as claimed: every score entry point (global, local with any         *)
(* direction, external) leaves the caller's graph unchanged: the same      *)
(* nodes and edges, the same node attributes, and the same groups after    *)
(* the call as before it.                                                  *)
C12_Original ==
    [][G' = G /\ node' = node /\ groups' = groups]_vars

----------------------------------------------------------------------------
(* C13: the contribution of a source to the score map depends only on the  *)
(* graph, the grouping and the source: whatever the order in which the     *)
(* sources are processed and however they are split among workers, every   *)
(* worker's partial map is the sum of the contributions of the sources it  *)
(* processed, and the merged and rescaled map is what the sequential loop  *)
(* of global_gefura or of _local_gefura returns.                           *)

\* what source s adds to an empty score map
Contribution(s) ==
    process_source(G, _groups_per_node(groups),
                   [gamma |-> ZeroMap(G), raised |-> FALSE],
                   s, IsLocal(script[1]), cutoff).gamma

Sequential ==
    IF IsLocal(script[1]) THEN _local_gefura(G, groups, normalized, cutoff)
    ELSE global_gefura(G, groups, normalized, cutoff)

C13_SourcesIndependent ==
    /\ \A worker \in Workers :
          \A v \in NodeSet(G) :
              partial[worker].gamma[v] =
                  RSum([s \in Range(partial[worker].sources) |->
                            Contribution(s)[v]],
                       Range(partial[worker].sources))
    /\ result[script[1]] # NotCalled => result[script[1]] = Sequential

\* merged after the second worker took the first node and the first worker
\* the others in descending order, with a score that is not 0
C13_Witness ==
    /\ Len(G.nodes) = 3
    /\ partial[2].sources = <<1>>
    /\ partial[1].sources = <<3, 2>>
    /\ result[script[1]].kind = "ok"
    /\ \E v \in NodeSet(G) : result[script[1]].val[v] # Zero

----------------------------------------------------------------------------
(* C14: with max_path_length = L the single-source pass from s puts in S   *)
(* exactly the nodes at hop distance at most L from s (every reachable     *)
(* node when max_path_length is None), and the unnormalized scores of      *)
(* global_gefura and of local_gefura are the path-fraction sums over the   *)
(* pairs (s, t) in different groups whose distance is at most L: all such  *)
(* pairs for the global score (each unordered pair once when the graph is  *)
(* undirected), the pairs from the node's own group to another group for   *)
(* the local score.                                                        *)

\* the ordered pairs of pairs whose shortest paths have at most limit edges
WithinLimit(paths, pairs, limit) ==
    {st \in pairs :
        \E p \in ShortestPaths(paths, st[1], st[2]) :
            \A L \in limit : Len(p) - 1 <= L}

\* the ordered pairs <<s, t>> in different groups, w excluded
OrderedCrossPairs(g, grps, w) ==
    {st \in NodeSet(g) \X NodeSet(g) :
        /\ st[1] # st[2]
        /\ st[1] # w /\ st[2] # w
        /\ ~SameGroup(grps, st[1], st[2])}

\* the ordered pairs <<s, t>> from the group of w to another group
OwnToOtherPairs(g, grps, w) ==
    {st \in OrderedCrossPairs(g, grps, w) : SameGroup(grps, st[1], w)}

C14_MaxPathLength ==
    LET paths == SimplePaths(G)
        all == NodeSet(G) \X NodeSet(G)
    IN  /\ \A s \in NodeSet(G) :
              Range(_single_source_shortest_path_basic(G, s, cutoff).S)
                  = {s} \cup {t \in NodeSet(G) :
                                <<s, t>> \in WithinLimit(paths, all, cutoff)}
        /\ result["global"] # NotCalled =>
              /\ result["global"].kind = "ok"
              /\ \A w \in NodeSet(G) :
                    result["global"].val[w] =
                        TrueDiv(FractionSum(paths,
                                    WithinLimit(paths,
                                        OrderedCrossPairs(G, groups, w), cutoff),
                                    w),
                                FromInt(IF G.directed THEN 1 ELSE 2))
        /\ result["out"] # NotCalled =>
              /\ result["out"].kind = "ok"
              /\ \A w \in NodeSet(G) :
                    result["out"].val[w] =
                        FractionSum(paths,
                            WithinLimit(paths,
                                OwnToOtherPairs(G, groups, w), cutoff),
                            w)

\* a limit that keeps some pair with a node in between and drops another
C14_Witness ==
    /\ cutoff = {2}
    /\ result["global"].kind = "ok"
    /\ result["out"].kind = "ok"
    /\ \E w \in NodeSet(G) :
          /\ result["out"].val[w] # Zero
          /\ result["global"].val[w] # Zero
    /\ result["global"] # global_gefura(G, groups, normalized, {})
    /\ result["out"] # local_gefura(G, groups, normalized, "out", {})

----------------------------------------------------------------------------
(* C15: global_gefura returns, for node s, the raw total of s divided by   *)
(* 2 when the graph is undirected and normalized=False, by 1 when it is    *)
(* directed and normalized=False, and, when normalized=True, by twice the  *)
(* sum over the unordered pairs of groups (A, B) of                        *)
(* |A\{s}| * |B\{s}| - |(A intersect B)\{s}|, for directed and undirected   *)
(* graphs alike (the score is 0 when that divisor is 0).                   *)

\* |A\{s}| * |B\{s}| - |(A intersect B)\{s}|: the pairs of different nodes,
\* one of A and one of B, s excluded
NodePairs(A, B, s) ==
    Cardinality({xy \in (A \ {s}) \X (B \ {s}) : xy[1] # xy[2]})

ClaimedDivisor(s) ==
    IF ~normalized THEN (IF G.directed THEN 1 ELSE 2)
    ELSE 2 * SumOver([ab \in Combinations2(groups) |->
                        NodePairs(groups[ab[1]], groups[ab[2]], s)],
                     Combinations2(groups))

\* the totals of global_gefura before rescale_global
RawGlobal ==
    _sources(G, _groups_per_node(groups),
             [gamma |-> ZeroMap(G), raised |-> FALSE], 1, FALSE, cutoff).gamma

\* looked at in the state that the call of global_gefura leaves
C15_GlobalDivisor ==
    (result["global"].kind = "ok" /\ result["out"] = NotCalled) =>
        \A s \in NodeSet(G) :
            result["global"].val[s] =
                IF ClaimedDivisor(s) = 0 THEN Zero
                ELSE TrueDiv(RawGlobal[s], FromInt(ClaimedDivisor(s)))

\* a normalized score on a directed graph with a node in two groups, and a
\* divisor that the shared node makes smaller
C15_Witness ==
    /\ G.directed /\ normalized /\ ~Disjoint(groups)
    /\ result["global"].kind = "ok" /\ result["out"] = NotCalled
    /\ \E s \in NodeSet(G) :
          /\ result["global"].val[s] \notin {Zero, FromInt(1)}
          /\ ClaimedDivisor(s) # global_factor_disjoint(G, groups, normalized, s)

----------------------------------------------------------------------------
(* C16: the increment i computed when w is popped in the accumulation for  *)
(* source s is the number of ordered pairs of group indices (A, B) with s  *)
(* in A, w in B and A # B; for a disjoint grouping it is 1 when s and w    *)
(* are in different groups and 0 when they are in the same group.          *)

\* the nodes popped so far in the accumulation
Popped == DOMAIN pass.i

GroupIndices(n) == {a \in DOMAIN groups : n \in groups[a]}

C16_IncrementCountsGroupPairs ==
    \A w \in Popped :
        /\ pass.i[w] =
              Cardinality({ab \in GroupIndices(pass.s) \X GroupIndices(w) :
                              ab[1] # ab[2]})
        /\ Disjoint(groups) =>
              pass.i[w] = IF SameGroup(groups, pass.s, w) THEN 0 ELSE 1

\* a node in two groups popped for a source in a third: two pairs of groups
C16_Witness ==
    \E w \in Popped :
        /\ w # pass.s
        /\ Cardinality(GroupIndices(w)) = 2
        /\ GroupIndices(pass.s) \cap GroupIndices(w) = {}
        /\ pass.i[w] = 2

----------------------------------------------------------------------------
(* C17 as claimed: in the local accumulation the gate i == 0 holds for the *)
(* popped node w exactly when s and w have a group in common, for every    *)
(* grouping that local_gefura accepts, disjoint or overlapping.            *)
C17_Original ==
    pass.local =>
        \A w \in Popped \ {pass.s} :
            pass.i[w] = 0 <=> SameGroup(groups, pass.s, w)

(* C17 as amended: in the local accumulation the gate i == 0 holds for the *)
(* popped node w exactly when s and w each belong to one group only and it *)
(* is the same group, and w (w # s) receives delta[w] exactly then; for a  *)
(* disjoint grouping that is exactly when s and w share a group.           *)

OnlyGroupShared(s, w) ==
    /\ GroupIndices(s) = GroupIndices(w)
    /\ Cardinality(GroupIndices(s)) = 1

C17_GateIsOnlyGroupShared ==
    pass.local =>
        \A w \in Popped :
            /\ pass.i[w] = 0 <=> OnlyGroupShared(pass.s, w)
            /\ pass.gamma[w] =
                  IF w # pass.s /\ OnlyGroupShared(pass.s, w)
                  THEN pass.delta[w] ELSE Zero
            /\ Disjoint(groups) =>
                  (pass.i[w] = 0 <=> SameGroup(groups, pass.s, w))

\* the local total of a node of the source's only group has received a
\* dependency that is not 0
C17_Witness ==
    /\ pass.local
    /\ \E w \in Popped \ {pass.s} :
          /\ pass.i[w] = 0
          /\ pass.gamma[w] # Zero
          /\ pass.gamma[w] = pass.delta[w]

----------------------------------------------------------------------------
(* C18: _single_source_shortest_path_basic terminates, and the S it        *)
(* returns holds every node reachable from s (within max_path_length when  *)
(* given) exactly once and no other node, in non-decreasing order of hop   *)
(* distance from s, s first.                                               *)

\* the hop distance from s to a node t that is reachable from s
HopDistance(paths, s, t) ==
    LET p == CHOOSE p \in ShortestPaths(paths, s, t) : TRUE IN Len(p) - 1

SListsReachable ==
    LET S == pass.fr.S
        s == pass.s
        paths == SimplePaths(G)
    IN  /\ \A j, k \in DOMAIN S : j # k => S[j] # S[k]
        /\ Range(S) = {t \in NodeSet(G) :
                          <<s, t>> \in WithinLimit(paths, {<<s, t>>}, cutoff)}
        /\ S[1] = s
        /\ \A j, k \in DOMAIN S :
              j < k => HopDistance(paths, s, S[j]) <= HopDistance(paths, s, S[k])

C18_BfsTerminatesWithReachableInOrder ==
    /\ <>(pass.fr.Q = <<>>)
    /\ [](pass.fr.Q = <<>> => SListsReachable)

\* the pass has ended with nodes at distances 0, 1 and 2 in S and a node
\* that is not in S
C18_Witness ==
    /\ pass.fr.Q = <<>>
    /\ Len(pass.fr.S) = 3
    /\ Len(G.nodes) = 4
    /\ \E t \in Range(pass.fr.S) : pass.fr.dist[t] = 2

----------------------------------------------------------------------------
(* C19: before the loop, after every iteration of `while Q` and at its     *)
(* end, sigma[s] = 1 and sigma[w] is the sum of sigma[v] over the v of     *)
(* P[w] for every w other than s; at the end sigma[w] is the number of     *)
(* shortest paths from s to w for every w of S (hence at least 1) and 0    *)
(* for every node that is not reachable from s.                            *)

\* sum(sigma[v] for v in P[w]), from the k-th predecessor on
RECURSIVE SigmaOfPredecessors(_, _, _)
SigmaOfPredecessors(fr, w, k) ==
    IF k > Len(fr.P[w]) THEN 0
    ELSE fr.sigma[fr.P[w][k]] + SigmaOfPredecessors(fr, w, k + 1)

C19_SigmaCountsShortestPaths ==
    LET fr == pass.fr
        s == pass.s
        paths == SimplePaths(G)
    IN  /\ fr.sigma[s] = 1
        /\ \A w \in NodeSet(G) \ {s} :
              fr.sigma[w] = SigmaOfPredecessors(fr, w, 1)
        /\ fr.Q = <<>> =>
              /\ \A w \in Range(fr.S) :
                    /\ fr.sigma[w] = Cardinality(ShortestPaths(paths, s, w))
                    /\ fr.sigma[w] >= 1
              /\ \A w \in NodeSet(G) :
                    ShortestPaths(paths, s, w) = {} => fr.sigma[w] = 0

\* the pass has ended with a node reached by two shortest paths
C19_Witness ==
    /\ pass.fr.Q = <<>>
    /\ \E w \in Range(pass.fr.S) :
          pass.fr.sigma[w] = 2 /\ Len(pass.fr.P[w]) = 2

----------------------------------------------------------------------------
(* C20: in the backward sweep for source s, when w is popped every node x  *)
(* of S with w in P[x] has been popped before; delta[w] is not modified    *)
(* from its pop on; the delta[w] read at the pop is the dependency         *)
(* sum over the x of S with w in P[x] of                                   *)
(* sigma[w] / sigma[x] * (i(s, x) + delta[x]); and the value added to the  *)
(* total of w is that delta[w], whether it is read before the predecessor  *)
(* updates of the pop (global_gefura) or after them (_local_gefura).       *)

\* the position of node x in S
IndexInS(x) == CHOOSE j \in DOMAIN pass.fr.S : pass.fr.S[j] = x

\* the nodes x of S with w in P[x]
SuccessorsInS(w) ==
    {x \in Range(pass.fr.S) : w \in Range(pass.fr.P[x])}

Dependency(w) ==
    RSum([x \in SuccessorsInS(w) |->
            RMul(Rat(pass.fr.sigma[w], pass.fr.sigma[x]),
                 RAdd(FromInt(pass.i[x]), pass.read[x]))],
         SuccessorsInS(w))

Receives(w) ==
    /\ w # pass.s
    /\ pass.local => pass.i[w] = 0

C20_DeltaFinalWhenPopped ==
    /\ ~pass.raised
    /\ Popped = {pass.fr.S[j] : j \in (pass.k + 1)..Len(pass.fr.S)}
    /\ \A w \in Popped :
          /\ \A x \in SuccessorsInS(w) : x \in Popped /\ IndexInS(x) > IndexInS(w)
          /\ pass.delta[w] = pass.read[w]
          /\ pass.read[w] = Dependency(w)
          /\ pass.gamma[w] = IF Receives(w) THEN pass.read[w] ELSE Zero
    /\ \A w \in NodeSet(G) \ Popped : pass.gamma[w] = Zero

\* the sweep has ended; a node on one of the two shortest paths to its
\* successor has received a dependency that is not a whole number
C20_Witness ==
    \E w \in Popped \ {pass.s} :
        /\ pass.k = 0
        /\ \E x \in SuccessorsInS(w) : pass.fr.sigma[x] = 2
        /\ pass.read[w][2] # 1
        /\ pass.gamma[w] = pass.read[w]

====
